---- MODULE Spec2Model ----
(***************************************************************************)
(* Model of daytona_sdk/sandbox.py: the Sandbox lifecycle calls start,     *)
(* stop, wait_for_sandbox_start, wait_for_sandbox_stop and the metadata    *)
(* call set_autostop_interval, as seen by one synchronous caller.          *)
(*                                                                         *)
(* Time is counted in whole ticks of the model clock.  A timeout of T       *)
(* seconds is T * TicksPerSecond ticks, and time.sleep(0.1), which is       *)
(* shorter than a tick at the resolutions analysed, is rounded up to one   *)
(* tick.  TicksPerSecond is the resolution of the clock: the source's      *)
(* ratio of timeout to poll interval is reached at TicksPerSecond = 10.    *)
(* Messages are sequences of text chunks; an f-string is the               *)
(* concatenation of its chunks and `"x" in str(e)` is membership of the    *)
(* chunk in the sequence.                                                  *)
(***************************************************************************)
EXTENDS Integers, Sequences, FiniteSets, TLC

\* ------------------------------------------------------------------ bounds
TicksPerSecond == 1     \* resolution of the model clock
MaxTransient == 2       \* swallowed query failures one call may meet
MaxSlow == 1            \* remote calls of one call that are slow
QueryLatency == 3       \* ticks a slow remote call takes
MaxExtra == 1           \* seconds by which a caller's timeout exceeds the default

\* ------------------------------------------------------- program constants
SleepTicks == 1         \* time.sleep(0.1), rounded up to a tick
DefaultTimeout == 60    \* timeout: Optional[float] = 60

\* status queries one call may issue in the model: enough to pass every deadline
MaxPolls == (DefaultTimeout + MaxExtra + 1) * TicksPerSecond + 2

Id == "sb1"             \* self.id
ValidationChunk == "validation error"

\* ------------------------------------------------------------- input sets
WaitOps == {"wait_for_sandbox_start", "wait_for_sandbox_stop"}
LifecycleOps == {"start", "stop"}
Ops == LifecycleOps \cup WaitOps
TimeoutValues == {-1, 0, 1, DefaultTimeout + MaxExtra}
States == {"pending", "started", "stopped", "error"}
Reasons == {<<"boom">>, <<"1", ValidationChunk, "for Workspace">>}
IntervalValues == {[isInt |-> TRUE, val |-> -1], [isInt |-> TRUE, val |-> 0],
                   [isInt |-> TRUE, val |-> 1], [isInt |-> FALSE, val |-> 1]}

NoErr == [type |-> "None", msg |-> <<>>, kind |-> "none"]
NoResponse == [state |-> "None", error_reason |-> <<>>]

\* failures a remote call can raise
ValidationFailure == [type |-> "ValidationError",
                      msg |-> <<"1", ValidationChunk, "for Workspace">>,
                      kind |-> "query_failure"]
ApiFailure == [type |-> "ApiException", msg |-> <<"connection refused">>,
               kind |-> "query_failure"]
QueryFailures == {ValidationFailure, ApiFailure}

\* what one get_workspace call can produce
QueryResults ==
    {[raises |-> FALSE, failure |-> NoErr, state |-> s, error_reason |-> <<>>] :
        s \in States \ {"error"}}
    \cup {[raises |-> FALSE, failure |-> NoErr, state |-> "error", error_reason |-> r] :
        r \in Reasons}
    \cup {[raises |-> TRUE, failure |-> f, state |-> "None", error_reason |-> <<>>] :
        f \in QueryFailures}

VARIABLES
    op,                 \* the call in progress ("none" when idle)
    timeout,            \* its timeout argument, in seconds
    interval,           \* the interval argument of set_autostop_interval
    pc,                 \* position of the call
    state,              \* the loop variable `state`
    response,           \* the loop variable `response`
    elapsed,            \* ticks since the call was entered
    innerStart,         \* value of elapsed when the nested wait was entered
    queries,            \* get_workspace calls issued by the call
    sleeps,             \* time.sleep calls made by the call
    requests,           \* other remote requests issued by the call
    requestResult,      \* "none", or how start_workspace / stop_workspace ended: "ok", "failed"
    transient,          \* exceptions the stop loop swallowed
    slow,               \* slow remote calls so far
    outcome,            \* "none", "success" or "failure"
    err,                \* the error raised to the caller
    errorSeen,          \* a status query returned state "error"
    raised,             \* a status query raised
    lastRaise,          \* what the most recent status query raised (NoErr: it returned)
    lastFailure,        \* the exception that left the loop body, before wrapping
    auto_stop_interval, \* self.instance.auto_stop_interval
    lastOk              \* interval of the last remote set_autostop_interval that succeeded

vars == <<op, timeout, interval, pc, state, response, elapsed, innerStart,
          queries, sleeps, requests, requestResult, transient, slow, outcome, err,
          errorSeen, raised, lastRaise, lastFailure, auto_stop_interval, lastOk>>

\* ---------------------------------------------------------------- helpers
Range(s) == {s[i] : i \in 1..Len(s)}

\* `chunk in str(e)`
Contains(msg, chunk) == chunk \in Range(msg)

Target(o) == IF o \in {"start", "wait_for_sandbox_start"} THEN "started" ELSE "stopped"

\* the wait a call polls in: itself, or the one start/stop call
WaitOf(o) ==
    IF o = "start" THEN "wait_for_sandbox_start"
    ELSE IF o = "stop" THEN "wait_for_sandbox_stop"
    ELSE o

MessagePrefix(o) ==
    CASE o = "start" -> "Failed to start sandbox: "
      [] o = "stop" -> "Failed to stop sandbox: "
      [] o = "wait_for_sandbox_start" -> "Failure during waiting for sandbox to start: "
      [] o = "wait_for_sandbox_stop" -> "Failure during waiting for sandbox to stop: "
      [] o = "set_autostop_interval" -> "Failed to set auto-stop interval: "

\* the error_message lambdas of the with_timeout decorators
TimeoutMessage(o, t) ==
    CASE o = "start" ->
            <<"Sandbox ", Id, " failed to start within the ", ToString(t), " seconds timeout period">>
      [] o = "stop" ->
            <<"Sandbox ", Id, " failed to stop within the ", ToString(t), " seconds timeout period">>
      [] o = "wait_for_sandbox_start" ->
            <<"Sandbox ", Id, " failed to become ready within the ", ToString(t), " seconds timeout period">>
      [] o = "wait_for_sandbox_stop" ->
            <<"Sandbox ", Id, " failed to become stopped within the ", ToString(t), " seconds timeout period">>

TimeoutFailure(o, t) ==
    [type |-> "DaytonaError", msg |-> TimeoutMessage(o, t), kind |-> "timeout"]

\* the DaytonaError the loops raise on state "error"
ErrorStateFailure(w, res) ==
    [type |-> "DaytonaError",
     msg |-> IF w = "wait_for_sandbox_start"
             THEN <<"Sandbox ", Id, " failed to start with state: ", res.state,
                    ", error reason: ">> \o res.error_reason
             ELSE <<"Sandbox ", Id, " failed to stop with status: ", res.state,
                    ", error reason: ">> \o res.error_reason,
     kind |-> "error_state"]

\* intercept_errors(message_prefix): every exception leaves as a DaytonaError
\* whose message is the prefix followed by the exception's message
InterceptErrors(prefix, e) ==
    [type |-> "DaytonaError", msg |-> <<prefix>> \o e.msg, kind |-> e.kind]

\* with_timeout: a negative timeout is rejected before the function runs
TimeoutRejected(t) == t < 0

InvalidTimeout ==
    [type |-> "DaytonaError", msg |-> <<"Timeout must be a non-negative number or None.">>,
     kind |-> "invalid_argument"]

\* with_timeout: the deadline of timeout t, counted from tick `since`, has
\* passed at tick `now`; 0 means no deadline
Expired(t, since, now) == t > 0 /\ now - since > t * TicksPerSecond

\* start and stop without the decorator
WithTimeoutDecoratedWaitsOnly(o) == o \in WaitOps

\* the methods that carry the with_timeout decorator
WithTimeoutDecorated(o) == o \in Ops

\* the timeout argument ignored by the wait
WaitTimeoutAlwaysDefault(o, t) == DefaultTimeout

\* the timeout the wait loop of call o runs under: start and stop call
\* self.wait_for_sandbox_start() / self.wait_for_sandbox_stop() without argument
WaitTimeout(o, t) == IF o \in LifecycleOps THEN DefaultTimeout ELSE t

\* the decorators an exception raised in the wait loop of call o goes through
Surface(o, e) ==
    IF o \in LifecycleOps
    THEN InterceptErrors(MessagePrefix(o), InterceptErrors(MessagePrefix(WaitOf(o)), e))
    ELSE InterceptErrors(MessagePrefix(o), e)

\* the start loop with the stop loop's except clause
StartBodySwallowing(res) ==
    LET e == IF res.raises THEN res.failure
             ELSE IF res.state = "error" THEN ErrorStateFailure("wait_for_sandbox_start", res)
             ELSE NoErr
    IN IF e # NoErr /\ Contains(e.msg, ValidationChunk) THEN NoErr ELSE e

\* the exception one iteration of the start loop raises (NoErr: none)
StartBody(res) ==
    IF res.raises THEN res.failure
    ELSE IF res.state = "error" THEN ErrorStateFailure("wait_for_sandbox_start", res)
    ELSE NoErr

\* the exception the try block of the stop loop raises
StopTry(res) ==
    IF res.raises THEN res.failure
    ELSE IF res.state = "error" THEN ErrorStateFailure("wait_for_sandbox_stop", res)
    ELSE NoErr

\* except Exception: continue waiting, whatever was raised
StopSwallowsAll(e) == e # NoErr

\* except Exception as e: if "validation error" not in str(e): raise e
StopSwallows(e) == e # NoErr /\ Contains(e.msg, ValidationChunk)

StopBody(res) == IF StopSwallows(StopTry(res)) THEN NoErr ELSE StopTry(res)

LoopBody(w, res) ==
    IF w = "wait_for_sandbox_start" THEN StartBody(res) ELSE StopBody(res)

\* the loop left after the first status, whatever it is
LoopContinuesUntilAnyStatus(w, s) == s = "None"

\* while state != "started" / while state != "stopped"
LoopContinues(w, s) == s # Target(w)

\* the deadline of the with_timeout of start / stop has passed
LifecycleExpired ==
    /\ op \in LifecycleOps
    /\ pc \in {"request", "query", "sleep", "exit"}
    /\ Expired(timeout, 0, elapsed)

\* the deadline of the with_timeout of the wait the call polls in has passed
WaitExpired ==
    /\ op \in Ops
    /\ pc \in {"query", "sleep", "exit"}
    /\ Expired(WaitTimeout(op, timeout), innerStart, elapsed)

AnyExpired == LifecycleExpired \/ WaitExpired

Latencies == IF slow < MaxSlow THEN {0, QueryLatency} ELSE {0}

\* ------------------------------------------------------------------- Init
Init ==
    /\ op = "none"
    /\ timeout = 0
    /\ interval = [isInt |-> TRUE, val |-> 0]
    /\ pc = "idle"
    /\ state = "None"
    /\ response = NoResponse
    /\ elapsed = 0
    /\ innerStart = 0
    /\ queries = 0
    /\ sleeps = 0
    /\ requests = 0
    /\ requestResult = "none"
    /\ transient = 0
    /\ slow = 0
    /\ outcome = "none"
    /\ err = NoErr
    /\ errorSeen = FALSE
    /\ raised = FALSE
    /\ lastRaise = NoErr
    /\ lastFailure = NoErr
    /\ auto_stop_interval \in {0, 1}
    /\ lastOk = auto_stop_interval

Fail(e) ==
    /\ pc' = "done"
    /\ outcome' = "failure"
    /\ err' = e

\* the body polls at once, without the lifecycle request
EntryPcSkipsRequest(o) == "query"

\* the first statement of the body of call o: start and stop issue the
\* lifecycle request, the waits enter their loop
EntryPc(o) == IF o \in LifecycleOps THEN "request" ELSE "query"

\* ---------------------------------------------------------------- actions
\* a caller enters start, stop, wait_for_sandbox_start or wait_for_sandbox_stop
Call(o, t) ==
    /\ pc = "idle"
    /\ op' = o
    /\ timeout' = t
    /\ IF WithTimeoutDecorated(o) /\ TimeoutRejected(t)
       THEN Fail(InterceptErrors(MessagePrefix(o), InvalidTimeout))
       ELSE /\ pc' = EntryPc(o)
            /\ UNCHANGED <<outcome, err>>
    /\ UNCHANGED <<interval, state, response, elapsed, innerStart, queries, sleeps,
                   requests, requestResult, transient, slow, errorSeen, raised, lastRaise, lastFailure,
                   auto_stop_interval, lastOk>>

\* self.sandbox_api.start_workspace / stop_workspace, then the nested wait is entered
Request ==
    /\ pc = "request"
    /\ ~AnyExpired
    /\ \E ok \in BOOLEAN, lat \in Latencies :
        /\ requests' = requests + 1
        /\ requestResult' = IF ok THEN "ok" ELSE "failed"
        /\ elapsed' = elapsed + lat
        /\ slow' = IF lat > 0 THEN slow + 1 ELSE slow
        /\ IF ok
           THEN /\ pc' = "query"
                /\ innerStart' = elapsed'
                /\ UNCHANGED <<outcome, err, lastFailure>>
           ELSE /\ Fail(InterceptErrors(MessagePrefix(op), ApiFailure))
                /\ lastFailure' = ApiFailure
                /\ UNCHANGED innerStart
    /\ UNCHANGED <<op, timeout, interval, state, response, queries, sleeps, transient,
                   errorSeen, raised, lastRaise, auto_stop_interval, lastOk>>

\* one get_workspace call and the rest of the loop body up to the sleep
Query ==
    /\ pc = "query"
    /\ ~AnyExpired
    /\ queries < MaxPolls
    /\ \E res \in QueryResults, lat \in Latencies :
        /\ WaitOf(op) = "wait_for_sandbox_stop" /\ StopSwallows(StopTry(res))
              => transient < MaxTransient
        /\ queries' = queries + 1
        /\ elapsed' = elapsed + lat
        /\ slow' = IF lat > 0 THEN slow + 1 ELSE slow
        /\ raised' = (raised \/ res.raises)
        /\ lastRaise' = res.failure
        /\ errorSeen' = (errorSeen \/ (~res.raises /\ res.state = "error"))
        /\ IF res.raises
           THEN UNCHANGED <<state, response>>
           ELSE /\ state' = res.state
                /\ response' = [state |-> res.state, error_reason |-> res.error_reason]
        /\ LET e == LoopBody(WaitOf(op), res) IN
           IF e # NoErr
           THEN /\ Fail(Surface(op, e))
                /\ lastFailure' = e
                /\ UNCHANGED transient
           ELSE /\ pc' = "sleep"
                /\ transient' = IF WaitOf(op) = "wait_for_sandbox_stop" /\ StopTry(res) # NoErr
                                THEN transient + 1 ELSE transient
                /\ UNCHANGED <<outcome, err, lastFailure>>
    /\ UNCHANGED <<op, timeout, interval, innerStart, sleeps, requests, requestResult,
                   auto_stop_interval, lastOk>>

\* time.sleep(0.1), then the loop condition
Sleep ==
    /\ pc = "sleep"
    /\ ~AnyExpired
    /\ sleeps' = sleeps + 1
    /\ elapsed' = elapsed + SleepTicks
    /\ pc' = IF LoopContinues(WaitOf(op), state) THEN "query" ELSE "exit"
    /\ UNCHANGED <<op, timeout, interval, state, response, innerStart, queries, requests,
                   requestResult,
                   transient, slow, outcome, err, errorSeen, raised, lastRaise, lastFailure,
                   auto_stop_interval, lastOk>>

\* the loop is left and the call returns
Exit ==
    /\ pc = "exit"
    /\ ~AnyExpired
    /\ pc' = "done"
    /\ outcome' = "success"
    /\ UNCHANGED <<op, timeout, interval, state, response, elapsed, innerStart, queries,
                   sleeps, requests, requestResult, transient, slow, err, errorSeen, raised, lastRaise, lastFailure,
                   auto_stop_interval, lastOk>>

\* start / stop: future.result(timeout) of the call's own with_timeout gives up
LifecycleTimeout ==
    /\ LifecycleExpired
    /\ Fail(InterceptErrors(MessagePrefix(op), TimeoutFailure(op, timeout)))
    /\ lastFailure' = TimeoutFailure(op, timeout)
    /\ UNCHANGED <<op, timeout, interval, state, response, elapsed, innerStart, queries,
                   sleeps, requests, requestResult, transient, slow, errorSeen, raised,
                   lastRaise,
                   auto_stop_interval, lastOk>>

\* future.result(timeout) of the wait's with_timeout gives up
WaitTimeoutFires ==
    /\ WaitExpired
    /\ Fail(Surface(op, TimeoutFailure(WaitOf(op), WaitTimeout(op, timeout))))
    /\ lastFailure' = TimeoutFailure(WaitOf(op), WaitTimeout(op, timeout))
    /\ UNCHANGED <<op, timeout, interval, state, response, elapsed, innerStart, queries,
                   sleeps, requests, requestResult, transient, slow, errorSeen, raised,
                   lastRaise,
                   auto_stop_interval, lastOk>>

IntervalRejected(iv) == ~iv.isInt \/ iv.val < 0

\* the field assigned before the remote request
AutostopAfterAssignFirst(cur, iv, ok) ==
    IF IntervalRejected(iv) THEN cur ELSE iv.val

\* the value of self.instance.auto_stop_interval after set_autostop_interval
AutostopAfter(cur, iv, ok) ==
    IF IntervalRejected(iv) THEN cur
    ELSE IF ok THEN iv.val
    ELSE cur

InvalidInterval ==
    [type |-> "DaytonaError", msg |-> <<"Auto-stop interval must be a non-negative integer">>,
     kind |-> "invalid_argument"]

\* set_autostop_interval(interval), the whole call
SetAutostopInterval(iv) ==
    /\ pc = "idle"
    /\ op' = "set_autostop_interval"
    /\ interval' = iv
    /\ pc' = "done"
    /\ \E ok \in BOOLEAN :
        /\ auto_stop_interval' = AutostopAfter(auto_stop_interval, iv, ok)
        /\ IF IntervalRejected(iv)
           THEN /\ outcome' = "failure"
                /\ err' = InterceptErrors(MessagePrefix("set_autostop_interval"), InvalidInterval)
                /\ UNCHANGED <<requests, lastOk>>
           ELSE /\ requests' = requests + 1
                /\ IF ok
                   THEN /\ outcome' = "success"
                        /\ lastOk' = iv.val
                        /\ UNCHANGED err
                   ELSE /\ outcome' = "failure"
                        /\ err' = InterceptErrors(MessagePrefix("set_autostop_interval"),
                                                  ApiFailure)
                        /\ UNCHANGED lastOk
    /\ UNCHANGED <<timeout, state, response, elapsed, innerStart, queries, sleeps,
                   requestResult, transient, slow, errorSeen, raised, lastRaise, lastFailure>>

\* the caller has the result and may make the next call
Return ==
    /\ pc = "done"
    /\ op' = "none"
    /\ timeout' = 0
    /\ interval' = [isInt |-> TRUE, val |-> 0]
    /\ pc' = "idle"
    /\ state' = "None"
    /\ response' = NoResponse
    /\ elapsed' = 0
    /\ innerStart' = 0
    /\ queries' = 0
    /\ sleeps' = 0
    /\ requests' = 0
    /\ requestResult' = "none"
    /\ transient' = 0
    /\ slow' = 0
    /\ outcome' = "none"
    /\ err' = NoErr
    /\ errorSeen' = FALSE
    /\ raised' = FALSE
    /\ lastRaise' = NoErr
    /\ lastFailure' = NoErr
    /\ UNCHANGED <<auto_stop_interval, lastOk>>

Next ==
    \/ \E o \in Ops, t \in TimeoutValues : Call(o, t)
    \/ Request
    \/ Query
    \/ Sleep
    \/ Exit
    \/ LifecycleTimeout
    \/ WaitTimeoutFires
    \/ \E iv \in IntervalValues : SetAutostopInterval(iv)
    \/ Return

Spec == Init /\ [][Next]_vars

\* a call that was entered keeps running: its thread and the future's timer
\* are scheduled; the caller is free to make no further call
Running == Request \/ Query \/ Sleep \/ Exit \/ LifecycleTimeout \/ WaitTimeoutFires
FairSpec == Spec /\ WF_vars(Running)

\* ----------------------------------------------------------------- claims
Done == pc = "done"
Deadline(t) == t * TicksPerSecond
\* every status query so far returned a status that is neither the target nor "error"
OnlyPending == ~raised /\ ~errorSeen /\ state # Target(op)

C2_ErrorStateTerminal ==
    op \in WaitOps /\ errorSeen
        => /\ Done
           /\ outcome = "failure"
           /\ err.kind = "error_state"
           /\ Range(response.error_reason) \subseteq Range(err.msg)

\* C3: with timeout = 0 a wait never fails with a timeout, and once a status
\* query returns the target after n queries that returned other non-error
\* statuses, no further query is issued and the wait ends in success with
\* n + 1 queries, whatever time has elapsed.
C3_NoDeadline ==
    op \in WaitOps /\ timeout = 0
        => /\ err.kind # "timeout"
           /\ ~raised /\ ~errorSeen /\ state = Target(op)
                => /\ pc \in {"sleep", "exit", "done"}
                   /\ Done => outcome = "success"
                   /\ response.state = Target(op)
                   /\ sleeps \in {queries - 1, queries}

C3_Witness ==
    /\ op \in WaitOps /\ timeout = 0 /\ Done /\ outcome = "success"
    /\ ~raised /\ ~errorSeen
    /\ queries > 50
    /\ elapsed > Deadline(DefaultTimeout)

\* C4: with timeout > 0 a wait always ends; if no status query returns the
\* target or "error" (or raises) it ends in a timeout failure; a timeout
\* failure happens only once more than timeout seconds have elapsed and its
\* message names the sandbox id and the timeout value.
C4_TimeoutFires ==
    /\ [](op \in WaitOps /\ timeout > 0 /\ Done /\ OnlyPending
            => outcome = "failure" /\ err.kind = "timeout")
    /\ [](op \in WaitOps /\ err.kind = "timeout"
            => /\ timeout > 0
               /\ elapsed > Deadline(timeout)
               /\ Contains(err.msg, Id)
               /\ Contains(err.msg, ToString(timeout)))
    /\ (op \in WaitOps /\ timeout > 0 /\ ~Done) ~> Done

C4_Witness ==
    /\ op = "wait_for_sandbox_start" /\ timeout = 1 /\ Done /\ OnlyPending
    /\ err.kind = "timeout" /\ queries >= 2 /\ sleeps >= 2

\* C5: a start, stop or wait call with a negative timeout fails with an error
\* and issues no status query and no lifecycle request.
C5_NegativeTimeoutRejected ==
    op \in Ops /\ timeout < 0
        => /\ Done
           /\ outcome = "failure"
           /\ err.type = "DaytonaError"
           /\ err.kind = "invalid_argument"
           /\ queries = 0
           /\ requests = 0
           /\ sleeps = 0

C5_Witness == op = "start" /\ timeout < 0 /\ Done /\ outcome = "failure"

\* C6 (as claimed): if the first status query returns the target state, the
\* wait returns success with exactly one query and zero sleeps.
C6_FirstQueryTarget ==
    op \in WaitOps /\ Done /\ queries = 1 /\ state = Target(op) /\ err.kind # "timeout"
        => outcome = "success" /\ sleeps = 0

\* C7 (as claimed): in wait_for_sandbox_stop a recognized validation failure
\* of a status query is swallowed, so k of them followed by "stopped" give
\* success; an unrecognized failure aborts the wait at that attempt and is
\* surfaced to the caller unchanged.
C7_SurfacedUnchanged ==
    op = "wait_for_sandbox_stop"
        => /\ lastRaise = ValidationFailure => err.kind \in {"none", "timeout"}
           /\ Done /\ state = "stopped" /\ queries = transient + 1
                => outcome = "success" \/ err.kind = "timeout"
           /\ lastRaise = ApiFailure
                => Done /\ outcome = "failure" /\ err.type = ApiFailure.type
                        /\ err.msg = ApiFailure.msg

\* C7 (amended): in wait_for_sandbox_stop a recognized validation failure of a
\* status query is swallowed, so k of them followed by "stopped" give success
\* unless the deadline passes first; an unrecognized failure aborts the wait at
\* that attempt with no further query, and the caller
\* gets a DaytonaError whose message is the prefix "Failure during waiting for
\* sandbox to stop: " followed by the message of that failure.
C7_SurfacedPrefixed ==
    op = "wait_for_sandbox_stop"
        => /\ lastRaise = ValidationFailure => err.kind \in {"none", "timeout"}
           /\ Done /\ state = "stopped" /\ queries = transient + 1
                => outcome = "success" \/ err.kind = "timeout"
           /\ lastRaise = ApiFailure
                => Done /\ outcome = "failure" /\ err.type = "DaytonaError"
                        /\ lastFailure = ApiFailure
                        /\ err.msg = <<"Failure during waiting for sandbox to stop: ">>
                                        \o ApiFailure.msg

C7_Witness ==
    /\ op = "wait_for_sandbox_stop" /\ Done
    /\ lastRaise = ApiFailure /\ transient >= 2 /\ queries = transient + 1

\* C8 (as claimed): start(timeout=T) and stop(timeout=T) wait under T: with
\* T = 0 the call never fails with a timeout, and with T > 0 it does not fail
\* with a timeout before T seconds have elapsed.
C8_CallerTimeoutGoverns ==
    op \in LifecycleOps /\ err.kind = "timeout"
        => timeout > 0 /\ elapsed >= Deadline(timeout)

\* C9: set_autostop_interval with a negative or non-integer interval fails
\* with a DaytonaError and issues no remote call; instance.auto_stop_interval
\* always equals the interval of the last call whose remote request
\* succeeded, so rejected and failed calls leave it unchanged.
C9_AutostopInterval ==
    /\ auto_stop_interval = lastOk
    /\ auto_stop_interval >= 0
    /\ op = "set_autostop_interval" /\ IntervalRejected(interval)
          => outcome = "failure" /\ err.type = "DaytonaError" /\ requests = 0
    /\ op = "set_autostop_interval" /\ outcome = "success"
          => auto_stop_interval = interval.val /\ requests = 1

C9_Witness ==
    /\ op = "set_autostop_interval" /\ Done /\ outcome = "failure"
    /\ ~IntervalRejected(interval) /\ requests = 1
    /\ interval.val # auto_stop_interval

\* C10: in wait_for_sandbox_start every status query that raises, a
\* validation failure included, aborts the wait at that attempt with a
\* failure; no further query is issued.
C10_StartWaitAbortsOnRaise ==
    WaitOf(op) = "wait_for_sandbox_start" /\ raised
        => /\ Done
           /\ outcome = "failure"
           /\ err.kind = "query_failure"
           /\ lastFailure = lastRaise
           /\ lastRaise # NoErr
           /\ transient = 0

C10_Witness ==
    /\ op = "wait_for_sandbox_start" /\ Done /\ lastRaise = ValidationFailure
    /\ queries >= 2

\* the part of C11 that does not depend on the timeout argument: the request
\* is issued at most once and before every status query; a failed request
\* ends the call in failure with no status query; success comes only after a
\* status query observed the target state
RequestOrder ==
    /\ requests <= 1
    /\ pc = "request" => requests = 0 /\ queries = 0
    /\ (requestResult = "none") = (requests = 0)
    /\ queries > 0 => requests = 1 /\ requestResult = "ok"
    /\ requestResult = "failed"
          => Done /\ outcome = "failure" /\ queries = 0 /\ sleeps = 0
                  /\ lastFailure = ApiFailure
    /\ outcome = "success"
          => state = Target(op) /\ response.state = Target(op) /\ queries >= 1

\* C11 (as claimed): in start() and stop() the lifecycle request is issued
\* exactly once per call and strictly before the first status query; if it
\* fails, no status query is issued and the call fails; the call returns
\* successfully only after a status query has observed the target state.
C11_RequestOncePerCall ==
    op \in LifecycleOps
        => /\ RequestOrder
           /\ pc # "request" => requests = 1

\* C11 (amended): in start() and stop() the lifecycle request is issued
\* exactly once per call whose timeout is not negative, and not at all by a
\* call with a negative timeout, which is rejected; it is issued strictly
\* before the first status query; if it fails, no status query is issued and
\* the call fails; the call returns successfully only after a status query
\* has observed the target state.
C11_RequestOncePerAcceptedCall ==
    op \in LifecycleOps
        => /\ RequestOrder
           /\ timeout >= 0 /\ pc # "request" => requests = 1
           /\ timeout < 0 => requests = 0 /\ queries = 0 /\ outcome = "failure"

C11_Witness ==
    /\ op = "stop" /\ Done /\ outcome = "success"
    /\ requests = 1 /\ requestResult = "ok" /\ queries >= 2

====
